---- MODULE Spec2Model ----
(***************************************************************************)
(* Model of the credential-dump normaliser of serializ3r                   *)
(* (src/ml_normalizer.py): PatternLibrary, FeatureExtractor,               *)
(* LineClassifier, FieldExtractor, CredentialEntry and MLNormalizer.       *)
(*                                                                         *)
(* A Python str is a sequence of one-character strings; NUL, TAB and LF    *)
(* name the characters \x00, \t and \n.  Optional[X] is a sequence of      *)
(* length 0 (None) or 1 (the value).  A float that the code derives from   *)
(* the literals 0.1 .. 1.0 is kept in tenths; a ratio or an entropy is     *)
(* kept in millionths.                                                     *)
(***************************************************************************)
EXTENDS Integers, Sequences, FiniteSets, TLC

VARIABLES
    pc, infile, can_open, min_confidence, cursor, stats, outfile, last,
    raw, line_ret,
    cline, cfeatures, cret,
    entry, entry_dict,
    arg, ret

vars == << pc, infile, can_open, min_confidence, cursor, stats, outfile, last,
           raw, line_ret, cline, cfeatures, cret, entry, entry_dict,
           arg, ret >>

fileVars == << pc, infile, can_open, min_confidence, cursor, stats, outfile, last >>
lineVars == << raw, line_ret >>
classifyVars == << cline, cfeatures, cret >>
entryVars == << entry, entry_dict >>
\* the argument and the result of one call of a helper function
callVars == << arg, ret >>

----------------------------------------------------------------------------
(* Characters and str methods                                              *)

NUL == "NUL"
TAB == "TAB"
LF == "LF"

Lower == {"a","b","c","d","e","f","g","h","i","j","k","l","m",
          "n","o","p","q","r","s","t","u","v","w","x","y","z"}
Upper == {"A","B","C","D","E","F","G","H","I","J","K","L","M",
          "N","O","P","Q","R","S","T","U","V","W","X","Y","Z"}
Digit == {"0","1","2","3","4","5","6","7","8","9"}

LowerSeq == << "a","b","c","d","e","f","g","h","i","j","k","l","m",
               "n","o","p","q","r","s","t","u","v","w","x","y","z" >>
UpperSeq == << "A","B","C","D","E","F","G","H","I","J","K","L","M",
               "N","O","P","Q","R","S","T","U","V","W","X","Y","Z" >>

isalpha(c) == c \in Lower \cup Upper
isdigit(c) == c \in Digit
isalnum(c) == isalpha(c) \/ isdigit(c)
isspace(c) == c \in {" ", TAB, LF}

\* re's \w and \b for a str pattern
isword(c) == isalnum(c) \/ c = "_"
WordAt(s, k) == k \in 1..Len(s) /\ isword(s[k])
\* \b at the gap in front of position p (p = Len(s) + 1 is the end of s)
WordBoundary(s, p) == WordAt(s, p - 1) # WordAt(s, p)

AllIn(s, lo, hi, class) == \A k \in lo..hi : s[k] \in class

lower(c) == IF c \in Upper
              THEN LowerSeq[CHOOSE k \in 1..26 : UpperSeq[k] = c]
              ELSE c

\* s[p .. p+Len(w)-1] = w
OccursAt(s, w, p) ==
    /\ p >= 1
    /\ p + Len(w) - 1 <= Len(s)
    /\ \A k \in 1..Len(w) : s[p + k - 1] = w[k]

OccursAtIgnoreCase(s, w, p) ==
    /\ p >= 1
    /\ p + Len(w) - 1 <= Len(s)
    /\ \A k \in 1..Len(w) : lower(s[p + k - 1]) = w[k]

\* str.strip()
RECURSIVE lstrip(_)
lstrip(s) == IF s # << >> /\ isspace(Head(s)) THEN lstrip(Tail(s)) ELSE s

RECURSIVE rstrip(_)
rstrip(s) == IF s # << >> /\ isspace(s[Len(s)])
               THEN rstrip(SubSeq(s, 1, Len(s) - 1))
               ELSE s

strip(s) == rstrip(lstrip(s))

\* the least position of a set of positions, 0 for the empty set
FirstOf(positions) ==
    IF positions = {} THEN 0
    ELSE CHOOSE q \in positions : \A r \in positions : q <= r

\* the first position from p on where w occurs, 0 when there is none
\* (a scan from the left, as str.find, str.count, str.replace and str.split
\* do; the recursions below step from one occurrence to the next)
Find(s, w, p) == FirstOf({ q \in p..(Len(s) - Len(w) + 1) : OccursAt(s, w, q) })

\* the first position from p on that holds whitespace, 0 when there is none
FindSpace(s, p) == FirstOf({ q \in p..Len(s) : isspace(s[q]) })

\* str.replace(c, '') for a single character c
RECURSIVE remove_char(_, _)
remove_char(s, c) ==
    LET q == Find(s, << c >>, 1)
    IN  IF q = 0 THEN s
        ELSE SubSeq(s, 1, q - 1) \o remove_char(SubSeq(s, q + 1, Len(s)), c)

\* str.count(w): occurrences of w from position p on, not overlapping
RECURSIVE CountFrom(_, _, _)
CountFrom(s, w, p) ==
    LET q == Find(s, w, p)
    IN  IF q = 0 THEN 0 ELSE 1 + CountFrom(s, w, q + Len(w))

count(s, w) == CountFrom(s, w, 1)

\* str.split(sep), sep not empty: the pieces between the occurrences of sep
RECURSIVE SplitFrom(_, _, _, _)
SplitFrom(s, sep, start, p) ==
    LET q == Find(s, sep, p)
    IN  IF q = 0 THEN << SubSeq(s, start, Len(s)) >>
        ELSE << SubSeq(s, start, q - 1) >>
               \o SplitFrom(s, sep, q + Len(sep), q + Len(sep))

split(s, sep) == SplitFrom(s, sep, 1, 1)

\* str.split(): the maximal runs of characters that are not whitespace
RECURSIVE SplitWsFrom(_, _, _)
SplitWsFrom(s, start, p) ==
    LET q == FindSpace(s, p)
    IN  IF q = 0
          THEN IF start <= Len(s) THEN << SubSeq(s, start, Len(s)) >> ELSE << >>
        ELSE (IF start < q THEN << SubSeq(s, start, q - 1) >> ELSE << >>)
               \o SplitWsFrom(s, q + 1, q + 1)

split_whitespace(s) == SplitWsFrom(s, 1, 1)

\* str.join(parts)
RECURSIVE join(_, _)
join(sep, parts) ==
    IF parts = << >> THEN << >>
    ELSE IF Len(parts) = 1 THEN parts[1]
    ELSE parts[1] \o sep \o join(sep, Tail(parts))

None == << >>
Some(x) == << x >>
\* Python truth of an Optional[str]
Truthy(v) == v # None /\ v[1] # << >>

----------------------------------------------------------------------------
(* class LineType, class HashType                                          *)

VALID_CREDENTIAL == "valid_credential"
HEADER == "header"
FOOTER == "footer"
COMMENT == "comment"
SEPARATOR == "separator"
GARBAGE == "garbage"
LineType == {VALID_CREDENTIAL, HEADER, FOOTER, COMMENT, SEPARATOR, GARBAGE}

HashType_MD5 == "md5"
HashType_SHA1 == "sha1"
HashType_SHA256 == "sha256"
HashType_SHA512 == "sha512"
HashType_BCRYPT == "bcrypt"
HashType_NTLM == "ntlm"
HashType_UNKNOWN == "unknown"

----------------------------------------------------------------------------
(* class PatternLibrary                                                    *)

EmailLocal == Lower \cup Upper \cup Digit \cup {".", "_", "%", "+", "-"}
EmailDomain == Lower \cup Upper \cup Digit \cup {".", "-"}
EmailTld == Lower \cup Upper \cup {"|"}

\* EMAIL matches s from position i on
EMAIL_at(s, i) ==
    /\ WordBoundary(s, i)
    /\ \E a \in (i + 1)..Len(s) :
         /\ s[a] = "@"
         /\ AllIn(s, i, a - 1, EmailLocal)
         /\ \E d \in (a + 2)..Len(s) :
              /\ s[d] = "."
              /\ AllIn(s, a + 1, d - 1, EmailDomain)
              /\ \E e \in (d + 2)..Len(s) :
                   /\ AllIn(s, d + 1, e, EmailTld)
                   /\ WordBoundary(s, e + 1)

EMAIL_search(s) == \E i \in 1..Len(s) : EMAIL_at(s, i)
EMAIL_match(s) == EMAIL_at(s, 1)

HexChars == Digit \cup {"a","b","c","d","e","f","A","B","C","D","E","F"}

\* \b[a-fA-F0-9]{n}\b matches s from position i on
HexRunAt(s, i, n) ==
    /\ i + n - 1 <= Len(s)
    /\ WordBoundary(s, i)
    /\ WordBoundary(s, i + n)
    /\ AllIn(s, i, i + n - 1, HexChars)

MD5_search(s) == \E i \in 1..Len(s) : HexRunAt(s, i, 32)
SHA1_search(s) == \E i \in 1..Len(s) : HexRunAt(s, i, 40)
SHA256_search(s) == \E i \in 1..Len(s) : HexRunAt(s, i, 64)
MD5_match(s) == HexRunAt(s, 1, 32)
SHA1_match(s) == HexRunAt(s, 1, 40)
SHA256_match(s) == HexRunAt(s, 1, 64)
SHA512_match(s) == HexRunAt(s, 1, 128)

BcryptChars == Lower \cup Upper \cup Digit \cup {".", "/"}

BCRYPT_match(s) ==
    /\ Len(s) >= 60
    /\ s[1] = "$"
    /\ s[2] = "2"
    /\ s[3] \in {"a", "y", "b"}
    /\ s[4] = "$"
    /\ isdigit(s[5])
    /\ isdigit(s[6])
    /\ s[7] = "$"
    /\ AllIn(s, 8, 60, BcryptChars)

DELIMITERS == << <<":">>, <<"|">>, <<";">>, <<TAB>>, <<",">>,
                 <<" ", "-", " ">>, <<"-", "-">>, <<"=", "=">> >>

UsernameChars == Lower \cup Upper \cup Digit \cup {".", "_", "-"}

\* ^[a-zA-Z0-9._-]{3,32}$ ; $ also matches in front of a final newline
USERNAME_match(s) ==
    \/ Len(s) \in 3..32 /\ AllIn(s, 1, Len(s), UsernameChars)
    \/ /\ Len(s) \in 4..33
       /\ s[Len(s)] = LF
       /\ AllIn(s, 1, Len(s) - 1, UsernameChars)

SeparatorChars_fewer == {" ", TAB, LF, "-", "="}
SeparatorChars == {" ", TAB, LF, "-", "=", "*", "#"}

\* ^[\s\-=*#]+$
SEPARATOR_ONLY(s) == Len(s) >= 1 /\ AllIn(s, 1, Len(s), SeparatorChars)

FieldKeywords ==
    { <<"u","s","e","r","n","a","m","e">>, <<"e","m","a","i","l">>,
      <<"p","a","s","s","w","o","r","d">>, <<"h","a","s","h">>,
      <<"u","s","e","r">>, <<"p","a","s","s">>, <<"l","o","g","i","n">> }

DumpKeywords ==
    { <<"d","a","t","a","b","a","s","e">>, <<"d","u","m","p">>,
      <<"l","e","a","k">>, <<"b","r","e","a","c","h">>,
      <<"c","o","m","b","o">> }

\* some pattern of NOISE_PATTERNS is found in s
NOISE_PATTERNS(s) ==
    \/ SEPARATOR_ONLY(s)
    \/ \E w \in FieldKeywords : OccursAtIgnoreCase(s, w, 1)
    \/ \E w \in DumpKeywords : \E p \in 1..Len(s) : OccursAtIgnoreCase(s, w, p)

----------------------------------------------------------------------------
(* class FeatureExtractor                                                  *)

\* math.log2(c) in millionths, c = 1 .. 160
Log2Table == <<
    0, 1000000, 1584963, 2000000, 2321928, 2584963, 2807355, 3000000,
    3169925, 3321928, 3459432, 3584963, 3700440, 3807355, 3906891, 4000000,
    4087463, 4169925, 4247928, 4321928, 4392317, 4459432, 4523562, 4584963,
    4643856, 4700440, 4754888, 4807355, 4857981, 4906891, 4954196, 5000000,
    5044394, 5087463, 5129283, 5169925, 5209453, 5247928, 5285402, 5321928,
    5357552, 5392317, 5426265, 5459432, 5491853, 5523562, 5554589, 5584963,
    5614710, 5643856, 5672425, 5700440, 5727920, 5754888, 5781360, 5807355,
    5832890, 5857981, 5882643, 5906891, 5930737, 5954196, 5977280, 6000000,
    6022368, 6044394, 6066089, 6087463, 6108524, 6129283, 6149747, 6169925,
    6189825, 6209453, 6228819, 6247928, 6266787, 6285402, 6303781, 6321928,
    6339850, 6357552, 6375039, 6392317, 6409391, 6426265, 6442943, 6459432,
    6475733, 6491853, 6507795, 6523562, 6539159, 6554589, 6569856, 6584963,
    6599913, 6614710, 6629357, 6643856, 6658211, 6672425, 6686501, 6700440,
    6714246, 6727920, 6741467, 6754888, 6768184, 6781360, 6794416, 6807355,
    6820179, 6832890, 6845490, 6857981, 6870365, 6882643, 6894818, 6906891,
    6918863, 6930737, 6942515, 6954196, 6965784, 6977280, 6988685, 7000000,
    7011227, 7022368, 7033423, 7044394, 7055282, 7066089, 7076816, 7087463,
    7098032, 7108524, 7118941, 7129283, 7139551, 7149747, 7159871, 7169925,
    7179909, 7189825, 7199672, 7209453, 7219169, 7228819, 7238405, 7247928,
    7257388, 7266787, 7276124, 7285402, 7294621, 7303781, 7312883, 7321928
    >>

RECURSIVE SumOver(_, _, _)
\* the sum of f[c] * g[f[c]] over the characters c of the set chars
SumOver(chars, f, g) ==
    IF chars = {} THEN 0
    ELSE LET c == CHOOSE x \in chars : TRUE
         IN  f[c] * g[f[c]] + SumOver(chars \ {c}, f, g)

\* Shannon entropy of text in millionths of a bit:
\* -sum p*log2(p) = (n*log2(n) - sum count*log2(count)) / n
calculate_entropy(text) ==
    IF text = << >> THEN 0
    ELSE LET text_len == Len(text)
             chars == { text[k] : k \in 1..text_len }
             char_counts == [ c \in chars |->
                                Cardinality({ k \in 1..text_len : text[k] = c }) ]
         IN  (text_len * Log2Table[text_len]
                - SumOver(chars, char_counts, Log2Table)) \div text_len

\* the first delimiter of DELIMITERS among those that occur most often
detect_delimiter_last_of_ties(line) ==
    LET delimiter_counts == [ k \in 1..Len(DELIMITERS) |-> count(line, DELIMITERS[k]) ]
        present == { k \in 1..Len(DELIMITERS) : delimiter_counts[k] > 0 }
    IN  IF present = {} THEN None
        ELSE LET best == CHOOSE k \in present :
                           /\ \A j \in present : delimiter_counts[j] <= delimiter_counts[k]
                           /\ \A j \in present :
                                delimiter_counts[j] = delimiter_counts[k] => j <= k
             IN  Some(DELIMITERS[best])

detect_delimiter(line) ==
    LET delimiter_counts == [ k \in 1..Len(DELIMITERS) |-> count(line, DELIMITERS[k]) ]
        present == { k \in 1..Len(DELIMITERS) : delimiter_counts[k] > 0 }
    IN  IF present = {} THEN None
        ELSE LET best == CHOOSE k \in present :
                           /\ \A j \in present : delimiter_counts[j] <= delimiter_counts[k]
                           /\ \A j \in present :
                                delimiter_counts[j] = delimiter_counts[k] => k <= j
             IN  Some(DELIMITERS[best])

\* n / len(line) in millionths, 0.0 for the empty line
Ratio(n, line) == IF Len(line) > 0 THEN (1000000 * n) \div Len(line) ELSE 0

IsSpecial(c) == ~isalnum(c) /\ ~isspace(c)

extract_features(line) ==
    LET delimiter == detect_delimiter(line)
    IN  [ length |-> Len(line),
          has_email |-> EMAIL_search(line),
          has_md5 |-> MD5_search(line),
          has_sha1 |-> SHA1_search(line),
          has_sha256 |-> SHA256_search(line),
          alpha_ratio |->
              Ratio(Cardinality({ k \in 1..Len(line) : isalpha(line[k]) }), line),
          digit_ratio |->
              Ratio(Cardinality({ k \in 1..Len(line) : isdigit(line[k]) }), line),
          special_ratio |->
              Ratio(Cardinality({ k \in 1..Len(line) : IsSpecial(line[k]) }), line),
          whitespace_ratio |->
              Ratio(Cardinality({ k \in 1..Len(line) : isspace(line[k]) }), line),
          delimiter |-> delimiter,
          field_count |-> IF Truthy(delimiter)
                            THEN Len(split(line, delimiter[1]))
                            ELSE 1,
          entropy |-> calculate_entropy(line) ]

----------------------------------------------------------------------------
(* class LineClassifier                                                    *)

Min_first(a, b) == a
Min(a, b) == IF a <= b THEN a ELSE b

\* the additive score of classify, in tenths
Score(features) ==
      (IF features.has_email THEN 4
       ELSE IF features.alpha_ratio > 300000 /\ features.alpha_ratio < 900000 THEN 2
       ELSE 0)
    + (IF features.has_md5 \/ features.has_sha1 \/ features.has_sha256 THEN 3 ELSE 0)
    + (IF Truthy(features.delimiter) THEN 2 ELSE 0)
    + (IF 2 <= features.field_count /\ features.field_count <= 5 THEN 1 ELSE 0)
    + (IF 2000000 < features.entropy /\ features.entropy < 5000000 THEN 1 ELSE 0)
    + (IF 20 <= features.length /\ features.length <= 200 THEN 1 ELSE 0)

\* (LineType, confidence in tenths)
classify_valid_from_half(line, features) ==
    IF Len(strip(line)) < 3 THEN << GARBAGE, 10 >>
    ELSE IF SEPARATOR_ONLY(line) THEN << SEPARATOR, 9 >>
    ELSE LET score == Score(features)
         IN  IF score >= 5 THEN << VALID_CREDENTIAL, Min(score, 10) >>
             ELSE IF NOISE_PATTERNS(line) THEN << HEADER, 8 >>
             ELSE << GARBAGE, 10 - score >>

classify_noise_first(line, features) ==
    IF Len(strip(line)) < 3 THEN << GARBAGE, 10 >>
    ELSE IF SEPARATOR_ONLY(line) THEN << SEPARATOR, 9 >>
    ELSE IF NOISE_PATTERNS(line) THEN << HEADER, 8 >>
    ELSE LET score == Score(features)
         IN  IF score >= 6 THEN << VALID_CREDENTIAL, Min(score, 10) >>
             ELSE << GARBAGE, 10 - score >>

classify(line, features) ==
    IF Len(strip(line)) < 3 THEN << GARBAGE, 10 >>
    ELSE IF SEPARATOR_ONLY(line) THEN << SEPARATOR, 9 >>
    ELSE LET score == Score(features)
         IN  IF score >= 6 THEN << VALID_CREDENTIAL, Min(score, 10) >>
             ELSE IF NOISE_PATTERNS(line) THEN << HEADER, 8 >>
             ELSE << GARBAGE, 10 - score >>

----------------------------------------------------------------------------
(* class CredentialEntry                                                   *)

CredentialEntry ==
    [ email |-> None, username |-> None, password |-> None,
      password_hash |-> None, hash_type |-> None, salt |-> None,
      additional_fields |-> None,
      confidence |-> 0, line_number |-> 0,
      detected_format |-> << >>, source_line |-> << >> ]

\* dataclasses.asdict: the (key, value) pairs in field order; a field whose
\* type is not Optional always has a value
asdict(e) ==
    << << "email", e.email >>, << "username", e.username >>,
       << "password", e.password >>, << "password_hash", e.password_hash >>,
       << "hash_type", e.hash_type >>, << "salt", e.salt >>,
       << "additional_fields", e.additional_fields >>,
       << "confidence", Some(e.confidence) >>,
       << "line_number", Some(e.line_number) >>,
       << "detected_format", Some(e.detected_format) >>,
       << "source_line", Some(e.source_line) >> >>

\* the test of to_dict on one (key, value) pair
to_dict_keeps_source_line(item) ==
    /\ item[2] # None
    /\ ~(item[1] = "additional_fields" /\ item[2][1] = {})

to_dict_keeps(item) ==
    /\ item[2] # None
    /\ item[1] # "source_line"
    /\ ~(item[1] = "additional_fields" /\ item[2][1] = {})

\* the serialized form: the kept (key, value) pairs in field order
to_dict(e) ==
    LET kept == SelectSeq(asdict(e), to_dict_keeps)
    IN  [ i \in 1..Len(kept) |-> << kept[i][1], kept[i][2][1] >> ]

Keys(d) == { d[i][1] : i \in 1..Len(d) }
Get(d, key) == d[CHOOSE i \in 1..Len(d) : d[i][1] = key][2]

----------------------------------------------------------------------------
(* class FieldExtractor                                                    *)

RECURSIVE StripAll(_)
StripAll(fields) ==
    IF fields = << >> THEN << >>
    ELSE << strip(Head(fields)) >> \o StripAll(Tail(fields))

NotEmpty(f) == f # << >>

extract_fields(line, delimiter) ==
    IF ~Truthy(delimiter)
      THEN LET fields == split_whitespace(line)
           IN  IF Len(fields) = 1 THEN << strip(line) >> ELSE StripAll(fields)
      ELSE SelectSeq(StripAll(split(line, delimiter[1])), NotEmpty)

identify_hash_type(hash_str) ==
    LET h == strip(hash_str)
    IN  IF BCRYPT_match(h) THEN HashType_BCRYPT
        ELSE IF SHA512_match(h) THEN HashType_SHA512
        ELSE IF SHA256_match(h) THEN HashType_SHA256
        ELSE IF SHA1_match(h) THEN HashType_SHA1
        ELSE IF MD5_match(h) THEN HashType_MD5
        ELSE HashType_UNKNOWN

\* the four assignments of parse_credential_line; st is the entry and the
\* flags email_found, hash_found
SetEmail(st, field) ==
    [st EXCEPT !.entry.email = Some(field), !.email_found = TRUE]

SetHash_noType(st, field, hash_type) ==
    [st EXCEPT !.entry.password_hash = Some(field), !.hash_found = TRUE]

SetHash(st, field, hash_type) ==
    [st EXCEPT !.entry.password_hash = Some(field),
               !.entry.hash_type = Some(hash_type),
               !.hash_found = TRUE]

SetUsername(st, field) == [st EXCEPT !.entry.username = Some(field)]

SetPassword_dropped(st, field) == st

SetPassword(st, field) == [st EXCEPT !.entry.password = Some(field)]

\* one iteration of the loop of parse_credential_line
AssignField(st, raw_field) ==
    LET field == strip(raw_field)
        hash_type == identify_hash_type(field)
    IN  IF field = << >> THEN st
        ELSE IF ~st.email_found /\ EMAIL_match(field)
          THEN SetEmail(st, field)
        ELSE IF ~st.hash_found /\ hash_type # HashType_UNKNOWN
          THEN SetHash(st, field, hash_type)
        ELSE IF ~Truthy(st.entry.username) /\ ~st.email_found /\ USERNAME_match(field)
          THEN SetUsername(st, field)
        ELSE IF ~Truthy(st.entry.password) /\ ~st.hash_found
          THEN SetPassword(st, field)
        ELSE st

RECURSIVE AssignFields(_, _)
AssignFields(st, fields) ==
    IF fields = << >> THEN st
    ELSE AssignFields(AssignField(st, Head(fields)), Tail(fields))

parse_credential_line(line, delimiter) ==
    LET fields == extract_fields(line, delimiter)
    IN  AssignFields([ entry |-> CredentialEntry,
                       email_found |-> FALSE,
                       hash_found |-> FALSE ], fields).entry

----------------------------------------------------------------------------
(* class MLNormalizer                                                      *)

\* re.sub(r'\s+', ' ', line)
RECURSIVE CollapseWs(_)
CollapseWs(s) ==
    LET q == FindSpace(s, 1)
    IN  IF q = 0 THEN s
        ELSE SubSeq(s, 1, q - 1) \o << " " >>
               \o CollapseWs(lstrip(SubSeq(s, q, Len(s))))

_clean_line(line) == CollapseWs(remove_char(strip(line), NUL))

\* dict.get(key, default)
DictGet(d, key, default) == IF key \in DOMAIN d THEN d[key] ELSE default

\* the result, or the AttributeError of None.join
_detect_format(e, features) ==
    LET parts == (IF Truthy(e.email) THEN << <<"e","m","a","i","l">> >> ELSE << >>)
              \o (IF Truthy(e.username)
                    THEN << <<"u","s","e","r","n","a","m","e">> >> ELSE << >>)
              \o (IF Truthy(e.password)
                    THEN << <<"p","a","s","s","w","o","r","d">> >> ELSE << >>)
              \o (IF Truthy(e.password_hash) THEN << <<"h","a","s","h">> >> ELSE << >>)
        delimiter == DictGet(features, "delimiter", Some(<<":">>))
    IN  IF parts # << >>
          THEN IF delimiter = None
                 THEN [ raised |-> TRUE ]
                 ELSE [ raised |-> FALSE, value |-> join(delimiter[1], parts) ]
          ELSE [ raised |-> FALSE, value |-> <<"u","n","k","n","o","w","n">> ]

\* kind "entry": the entry returned; kind "None": None returned;
\* kind "raise": an exception leaves normalize_line
normalize_line(raw_line, line_number) ==
    LET line == _clean_line(raw_line)
    IN  IF line = << >> THEN [ kind |-> "None" ]
        ELSE LET features == extract_features(line)
                 cls == classify(line, features)
             IN  IF cls[1] # VALID_CREDENTIAL THEN [ kind |-> "None" ]
                 ELSE LET parsed == parse_credential_line(line, features.delimiter)
                          fmt == _detect_format(parsed, features)
                      IN  IF fmt.raised THEN [ kind |-> "raise" ]
                          ELSE IF ~(\/ Truthy(parsed.email)
                                    \/ Truthy(parsed.username)
                                    \/ Truthy(parsed.password)
                                    \/ Truthy(parsed.password_hash))
                            THEN [ kind |-> "None" ]
                          ELSE [ kind |-> "entry",
                                 entry |-> [parsed EXCEPT
                                              !.confidence = cls[2],
                                              !.line_number = line_number,
                                              !.source_line = line,
                                              !.detected_format = fmt.value] ]

\* enumerate(infile, start=1): the number given to the line read after
\* consumed lines
enumerate_zero_based(consumed) == consumed
enumerate(consumed) == consumed + 1

\* outcomes of json.dump(entry.to_dict(), outfile) and outfile.write('\n'):
\* both succeed, json.dump raises (OSError) after writing part of the
\* object, or the object is written and the write of the newline raises
WriteOutcomes == {"ok", "dump_raises", "newline_raises"}

ZeroStats ==
    [ total_lines |-> 0, valid_credentials |-> 0,
      filtered_low_confidence |-> 0, errors |-> 0 ]

\* both files of the with statement open
OpensBoth_inputOnly(co) == co.input
OpensBoth(co) == co.input /\ co.output

\* the updates of the statistics in the loop
CountLine_forgotten(st) == st
CountLine(st) == [st EXCEPT !.total_lines = @ + 1]
CountValid(st) == [st EXCEPT !.valid_credentials = @ + 1]
CountFiltered(st) == [st EXCEPT !.filtered_low_confidence = @ + 1]
CountError_forgotten(st) == st
CountError(st) == [st EXCEPT !.errors = @ + 1]

\* with open(input_path) as infile, open(output_path, 'w') as outfile
Open ==
    /\ pc = "start"
    /\ OpensBoth(can_open)
    /\ pc' = "loop"
    /\ UNCHANGED << infile, can_open, min_confidence, cursor, stats, outfile, last >>
    /\ UNCHANGED << lineVars, classifyVars, entryVars, callVars >>

\* an open fails: the outer handler logs and re-raises
OpenFails ==
    /\ pc = "start"
    /\ ~OpensBoth(can_open)
    /\ pc' = "raised"
    /\ UNCHANGED << infile, can_open, min_confidence, cursor, stats, outfile, last >>
    /\ UNCHANGED << lineVars, classifyVars, entryVars, callVars >>

\* one iteration of the loop of normalize_file
ProcessLine ==
    /\ pc = "loop"
    /\ cursor < Len(infile)
    /\ cursor' = cursor + 1
    /\ pc' = "loop"
    /\ LET line_num == enumerate(cursor)
           line == infile[cursor + 1]
           counted == CountLine(stats)
           r == normalize_line(line, line_num)
       IN  IF r.kind = "raise"
             THEN /\ stats' = CountError(counted)
                  /\ outfile' = outfile
                  /\ last' = [ outcome |-> "raise", line_num |-> line_num ]
           ELSE IF r.kind = "entry" /\ r.entry.confidence >= min_confidence
             THEN LET valid == CountValid(counted)
                      rec == [ data |-> to_dict(r.entry), pos |-> cursor + 1 ]
                  IN  \E w \in WriteOutcomes :
                        IF w = "ok"
                          THEN /\ stats' = valid
                               /\ outfile' = Append(outfile,
                                                    rec @@ [ written |-> "record" ])
                               /\ last' = [ outcome |-> "emitted",
                                            line_num |-> line_num ]
                          ELSE /\ stats' = CountError(valid)
                               /\ outfile' = Append(outfile,
                                      rec @@ [ written |-> IF w = "dump_raises"
                                                             THEN "fragment"
                                                             ELSE "no_newline" ])
                               /\ last' = [ outcome |-> "write_raise",
                                            line_num |-> line_num ]
           ELSE IF r.kind = "entry"
             THEN /\ stats' = CountFiltered(counted)
                  /\ outfile' = outfile
                  /\ last' = [ outcome |-> "filtered", line_num |-> line_num ]
           ELSE /\ stats' = counted
                /\ outfile' = outfile
                /\ last' = [ outcome |-> "None", line_num |-> line_num ]
    /\ UNCHANGED << infile, can_open, min_confidence >>
    /\ UNCHANGED << lineVars, classifyVars, entryVars, callVars >>

\* the input is exhausted: return stats
Return ==
    /\ pc = "loop"
    /\ cursor = Len(infile)
    /\ pc' = "returned"
    /\ UNCHANGED << infile, can_open, min_confidence, cursor, stats, outfile, last >>
    /\ UNCHANGED << lineVars, classifyVars, entryVars, callVars >>

----------------------------------------------------------------------------
(* Inputs                                                                  *)

T_email == << "a","@","b",".","c","o" >>
T_md5 == << "5","f","4","d","c","c","3","b","5","a","a","7","6","5","d","6",
            "1","d","8","3","2","7","d","e","b","8","8","2","c","f","9","9" >>
T_user == << "j","o","h","n","_","d","o","e" >>
T_pass == << "s","3","c","r","3","t","!" >>
T_sep == << "=","=","=" >>
T_word == << "d","u","m","p" >>

Tokens == { T_email, T_md5, T_user, T_pass, T_sep, T_word }
Joiners == { << ":" >>, << " " >>, << " ", "-", " " >> }
Wraps == { << << >>, << >> >>, << << " " >>, << LF >> >>, << << NUL >>, << LF >> >> }

MaxTokens == 3
MaxLineNumber == 2
MaxLines == 3
MaxSepLen == 4

RECURSIVE TokenSeqs(_)
TokenSeqs(n) ==
    IF n = 0 THEN { << >> }
    ELSE LET shorter == TokenSeqs(n - 1)
         IN  shorter \cup { Append(ts, t) : ts \in { x \in shorter : Len(x) = n - 1 },
                                             t \in Tokens }

\* the raw lines given to normalize_line
RawLines ==
    { w[1] \o join(j, ts) \o w[2] : w \in Wraps, j \in Joiners, ts \in TokenSeqs(MaxTokens) }

DefaultFeatures == extract_features(<< >>)

LineDefaults ==
    /\ raw = << >>
    /\ line_ret = [ kind |-> "off" ]

ClassifyDefaults ==
    /\ cline = << >>
    /\ cfeatures = DefaultFeatures
    /\ cret = << "off", 0 >>

EntryDefaults ==
    /\ entry = CredentialEntry
    /\ entry_dict = << >>

CallDefaults ==
    /\ arg = << >>
    /\ ret = [ fn |-> "off" ]

FileDefaults ==
    /\ pc = "idle"
    /\ infile = << >>
    /\ can_open = [ input |-> TRUE, output |-> TRUE ]
    /\ min_confidence = 5
    /\ cursor = 0
    /\ stats = ZeroStats
    /\ outfile = << >>
    /\ last = [ outcome |-> "start", line_num |-> 0 ]

\* the raw lines of the input files, as the iteration over infile yields them
F_valid == T_email \o << ":" >> \o T_pass \o << LF >>
F_hash == T_email \o << ":" >> \o T_md5 \o << LF >>
F_low == T_user \o << ":" >> \o T_pass \o << LF >>
F_spaced == T_email \o << " " >> \o T_md5 \o << LF >>
F_blank == << LF >>
F_white == << " ", TAB, LF >>
F_sep == T_sep \o << LF >>

FileLines == { F_valid, F_hash, F_low, F_spaced, F_blank, F_white, F_sep }

RECURSIVE Files(_)
Files(n) ==
    IF n = 0 THEN { << >> }
    ELSE LET shorter == Files(n - 1)
         IN  shorter \cup { Append(f, l) : f \in { x \in shorter : Len(x) = n - 1 },
                                            l \in FileLines }

\* min_confidence in tenths; 0.5 is the default of normalize_file
MinConfidences == { 5, 7 }

\* the lines given to classify
RECURSIVE SepLines(_)
SepLines(n) ==
    IF n = 0 THEN { << >> }
    ELSE LET shorter == SepLines(n - 1)
         IN  shorter \cup { Append(s, c) : s \in { x \in shorter : Len(x) = n - 1 },
                                            c \in {" ", "-", "=", "*", "#"} }

ClassifyLines ==
    { << "-", "-" >>, << " ", " ", " ", " " >>, << "-", "-", " ", "-", "-" >>,
      << "=", "=", "=", "=" >>, << "@", "@", "@", "@" >>,
      T_word, T_user \o << ":" >> \o T_pass, T_email \o << ":" >> \o T_md5 }

\* feature records given to classify that no line has to produce
FeatureRecords ==
    [ length : { 19, 20, 200, 201 },
      has_email : BOOLEAN,
      has_md5 : BOOLEAN,
      has_sha1 : BOOLEAN,
      has_sha256 : { FALSE },
      alpha_ratio : { 300000, 500000, 900000 },
      digit_ratio : { 0 },
      special_ratio : { 0 },
      whitespace_ratio : { 0 },
      delimiter : { None, Some(<< ":" >>) },
      field_count : { 1, 2, 5, 6 },
      entropy : { 2000000, 3000000, 5000000 } ]

OptionalStrs == { None, Some(<< >>), Some(<< "x" >>) }

\* the entries given to to_dict
Entries ==
    [ email : OptionalStrs, username : OptionalStrs, password : OptionalStrs,
      password_hash : OptionalStrs, hash_type : { None, Some(HashType_MD5) },
      salt : OptionalStrs,
      additional_fields : { None, Some({}), Some({ << "k", "v" >> }) },
      confidence : { 0, 8 }, line_number : { 0, 1 },
      detected_format : { << >> }, source_line : { << >>, << "x" >> } ]

----------------------------------------------------------------------------
(* Specifications                                                          *)

\* normalize_file over every file of at most MaxLines lines
Init ==
    /\ pc = "start"
    /\ infile \in Files(MaxLines)
    /\ can_open \in [ input : BOOLEAN, output : BOOLEAN ]
    /\ min_confidence \in MinConfidences
    /\ cursor = 0
    /\ stats = ZeroStats
    /\ outfile = << >>
    /\ last = [ outcome |-> "start", line_num |-> 0 ]
    /\ LineDefaults /\ ClassifyDefaults /\ EntryDefaults /\ CallDefaults

Next == Open \/ OpenFails \/ ProcessLine \/ Return

Spec == Init /\ [][Next]_vars

\* normalize_line on every raw line
CallNormalizeLine ==
    /\ line_ret.kind = "pending"
    /\ \E n \in 1..MaxLineNumber : line_ret' = normalize_line(raw, n)
    /\ UNCHANGED << raw, fileVars, classifyVars, entryVars, callVars >>

InitLine ==
    /\ raw \in RawLines
    /\ line_ret = [ kind |-> "pending" ]
    /\ FileDefaults /\ ClassifyDefaults /\ EntryDefaults /\ CallDefaults

NextLine == CallNormalizeLine

SpecLine == InitLine /\ [][NextLine]_vars

\* classify on every line with its own features, and on some lines with
\* every feature record
CallClassify ==
    /\ cret[1] = "pending"
    /\ cret' = classify(cline, cfeatures)
    /\ UNCHANGED << cline, cfeatures, fileVars, lineVars, entryVars, callVars >>

InitClassify ==
    /\ \/ /\ cline \in SepLines(MaxSepLen) \cup ClassifyLines
          /\ cfeatures = extract_features(cline)
       \/ /\ cline \in ClassifyLines
          /\ cfeatures \in FeatureRecords
    /\ cret = << "pending", 0 >>
    /\ FileDefaults /\ LineDefaults /\ EntryDefaults /\ CallDefaults

NextClassify == CallClassify

SpecClassify == InitClassify /\ [][NextClassify]_vars

\* classify and normalize_line together
InitLineClassify == InitLine \/ InitClassify

NextLineClassify == NextLine \/ NextClassify

SpecLineClassify == InitLineClassify /\ [][NextLineClassify]_vars

\* to_dict on every entry
CallToDict ==
    /\ entry_dict = << >>
    /\ entry_dict' = to_dict(entry)
    /\ UNCHANGED << entry, fileVars, lineVars, classifyVars, callVars >>

InitEntry ==
    /\ entry \in Entries
    /\ entry_dict = << >>
    /\ FileDefaults /\ LineDefaults /\ ClassifyDefaults /\ CallDefaults

NextEntry == CallToDict

SpecEntry == InitEntry /\ [][NextEntry]_vars

\* the tokens given to parse_credential_line
T_email2 == << "c","@","d",".","i","o" >>
T_sha1 == << "5","b","a","a","6","1","e","4","c","9","b","9","3","f","3","f",
             "0","6","8","2","2","5","0","b","6","c","f","8","3","3","1","b",
             "7","e","e","6","8","f","d","8" >>
T_pass2 == << "p","@","s","s" >>

ParseTokens == { T_email, T_email2, T_md5, T_sha1, T_user, T_word, T_pass, T_pass2 }

MaxFields == 3

RECURSIVE FieldSeqs(_)
FieldSeqs(n) ==
    IF n = 0 THEN { << >> }
    ELSE LET shorter == FieldSeqs(n - 1)
         IN  shorter \cup { Append(ts, t) : ts \in { x \in shorter : Len(x) = n - 1 },
                                             t \in ParseTokens }

\* (line, delimiter) given to parse_credential_line: fields separated by
\* ':' with that delimiter, or by a space with no delimiter
ParseArgs ==
    { [ line |-> join(<< ":" >>, ts), delimiter |-> Some(<< ":" >>) ] :
        ts \in FieldSeqs(MaxFields) }
    \cup { [ line |-> join(<< " " >>, ts), delimiter |-> None ] :
             ts \in FieldSeqs(MaxFields) }

\* parse_credential_line on every (line, delimiter)
CallParseCredentialLine ==
    /\ ret.fn = "pending"
    /\ ret' = [ fn |-> "parse_credential_line",
                value |-> parse_credential_line(arg.line, arg.delimiter) ]
    /\ UNCHANGED << arg, fileVars, lineVars, classifyVars, entryVars >>

InitParse ==
    /\ arg \in ParseArgs
    /\ ret = [ fn |-> "pending" ]
    /\ FileDefaults /\ LineDefaults /\ ClassifyDefaults /\ EntryDefaults

NextParse == CallParseCredentialLine

SpecParse == InitParse /\ [][NextParse]_vars

\* ---------------------------------------------------------------------
\* identify_hash_type called on one token: runs of hex digits whose length
\* is at, one under and one over each hash length, and a bcrypt string,
\* each bare, behind a blank, or followed by further characters
HashLengths == {32, 40, 64, 128}
HexRunLengths == UNION { { n - 1, n, n + 1 } : n \in HashLengths }
HexRun(n) == [ i \in 1..n |-> IF i % 3 = 1 THEN "a" ELSE IF i % 3 = 2 THEN "F" ELSE "9" ]
T_bcrypt ==
    << "$", "2", "a", "$", "1", "0", "$" >>
      \o [ i \in 1..53 |-> IF i % 3 = 1 THEN "." ELSE IF i % 3 = 2 THEN "k" ELSE "7" ]
HashBodies == { HexRun(n) : n \in HexRunLengths } \cup { T_bcrypt }
HashPrefixes == { << >>, << " " >> }
HashSuffixes == { << >>, << " " >>, << "!" >>, << "-", "x" >>, << ":", "p" >>, << "z" >> }
HashArgs == { p \o b \o s : p \in HashPrefixes, b \in HashBodies, s \in HashSuffixes }

CallIdentifyHashType ==
    /\ ret.fn = "pending"
    /\ ret' = [ fn |-> "identify_hash_type", value |-> identify_hash_type(arg) ]
    /\ UNCHANGED << arg, fileVars, lineVars, classifyVars, entryVars >>

InitHash ==
    /\ arg \in HashArgs
    /\ ret = [ fn |-> "pending" ]
    /\ FileDefaults /\ LineDefaults /\ ClassifyDefaults /\ EntryDefaults

NextHash == CallIdentifyHashType

SpecHash == InitHash /\ [][NextHash]_vars

\* ---------------------------------------------------------------------
\* detect_delimiter called on one line: every line of at most MaxDelimLen
\* characters over an alphabet that spells six of the eight candidates and
\* one other character
DelimAlphabet == { ":", "|", ";", " ", "-", "=", "a" }
MaxDelimLen == 4
DelimLines == UNION { [ 1..n -> DelimAlphabet ] : n \in 0..MaxDelimLen }

CallDetectDelimiter ==
    /\ ret.fn = "pending"
    /\ ret' = [ fn |-> "detect_delimiter", value |-> detect_delimiter(arg) ]
    /\ UNCHANGED << arg, fileVars, lineVars, classifyVars, entryVars >>

InitDelimiter ==
    /\ arg \in DelimLines
    /\ ret = [ fn |-> "pending" ]
    /\ FileDefaults /\ LineDefaults /\ ClassifyDefaults /\ EntryDefaults

NextDelimiter == CallDetectDelimiter

SpecDelimiter == InitDelimiter /\ [][NextDelimiter]_vars

\* ---------------------------------------------------------------------
\* _clean_line called on one raw line: every line of at most MaxCleanLen
\* characters over blank, tab, NUL and a letter
CleanAlphabet == { " ", TAB, NUL, "a" }
MaxCleanLen == 4
CleanLines == UNION { [ 1..n -> CleanAlphabet ] : n \in 0..MaxCleanLen }

CallCleanLine ==
    /\ ret.fn = "pending"
    /\ ret' = [ fn |-> "_clean_line", value |-> _clean_line(arg) ]
    /\ UNCHANGED << arg, fileVars, lineVars, classifyVars, entryVars >>

InitClean ==
    /\ arg \in CleanLines
    /\ ret = [ fn |-> "pending" ]
    /\ FileDefaults /\ LineDefaults /\ ClassifyDefaults /\ EntryDefaults

NextClean == CallCleanLine

SpecClean == InitClean /\ [][NextClean]_vars

\* ---------------------------------------------------------------------
\* normalize_file with a threshold of at most 0.6 on files of at most
\* MaxLowLines lines, next to normalize_line on lines of at most MaxLowTokens
\* tokens and on lines that score just under the threshold
LowMinConfidences == { 0, 5, 6 }
MaxLowLines == 2

InitLowThreshold ==
    /\ pc = "start"
    /\ infile \in Files(MaxLowLines)
    /\ can_open \in [ input : BOOLEAN, output : BOOLEAN ]
    /\ min_confidence \in LowMinConfidences
    /\ cursor = 0
    /\ stats = ZeroStats
    /\ outfile = << >>
    /\ last = [ outcome |-> "start", line_num |-> 0 ]
    /\ LineDefaults /\ ClassifyDefaults /\ EntryDefaults /\ CallDefaults

\* lines that score 0.5, one step under the ValidCredential threshold, and
\* have a delimiter: alphabetic, two fields, low entropy, short
T_pair == << "a", "a" >>
HalfLines == { join(<< ":" >>, << T_pair, T_pair >>) \o e : e \in { << >>, << LF >> } }

MaxLowTokens == 2
LowLines ==
    { w[1] \o join(j, ts) \o w[2] :
        w \in Wraps, j \in Joiners, ts \in TokenSeqs(MaxLowTokens) }

InitHalfLine ==
    /\ raw \in LowLines \cup HalfLines
    /\ line_ret = [ kind |-> "pending" ]
    /\ FileDefaults /\ ClassifyDefaults /\ EntryDefaults /\ CallDefaults

InitThreshold == InitLowThreshold \/ InitHalfLine

NextThreshold == Next \/ NextLine

SpecThreshold == InitThreshold /\ [][NextThreshold]_vars

\* ---------------------------------------------------------------------
\* normalize_line on lines of at most MaxGuardTokens tokens, the empty
\* token among them, so that delimiters stand at the ends of the line and
\* next to each other
GuardTokens == Tokens \cup { << >>, T_pair }
MaxGuardTokens == 2

RECURSIVE GuardTokenSeqs(_)
GuardTokenSeqs(n) ==
    IF n = 0 THEN { << >> }
    ELSE LET shorter == GuardTokenSeqs(n - 1)
         IN  shorter \cup { Append(ts, t) : ts \in { x \in shorter : Len(x) = n - 1 },
                                             t \in GuardTokens }

GuardLines ==
    { w[1] \o join(j, ts) \o w[2] :
        w \in Wraps, j \in Joiners, ts \in GuardTokenSeqs(MaxGuardTokens) }

InitGuard ==
    /\ raw \in GuardLines
    /\ line_ret = [ kind |-> "pending" ]
    /\ FileDefaults /\ ClassifyDefaults /\ EntryDefaults /\ CallDefaults

NextGuard == CallNormalizeLine

SpecGuard == InitGuard /\ [][NextGuard]_vars

----------------------------------------------------------------------------
(* Claims                                                                  *)

\* the step of the loop of normalize_file on the line at the cursor
LineStep == pc = "loop" /\ cursor < Len(infile)
NextLineOfFile == infile[cursor + 1]
\* the last write to outfile in this step raised
WriteRaised ==
    /\ Len(outfile') = Len(outfile) + 1
    /\ outfile'[Len(outfile')].written # "record"

\* C1: a failure while one line is processed (normalize_line raises, or the
\* serialization of its entry raises) adds exactly one to errors and nothing
\* to the other handling of the run: the loop goes on with the next line,
\* and normalize_file leaves the loop only by returning the statistics.
C1_PerLineFailureIsolated ==
    [][ /\ LineStep =>
            /\ pc' = "loop"
            /\ cursor' = cursor + 1
            /\ (normalize_line(NextLineOfFile, cursor + 1).kind = "raise" \/ WriteRaised)
                 => stats'.errors = stats.errors + 1
        /\ pc = "loop" => pc' \in {"loop", "returned"}
      ]_vars

C1_Witness ==
    /\ pc = "returned"
    /\ stats.errors >= 1
    /\ last.outcome = "emitted"
    /\ \E k \in 1..Len(infile) : infile[k] = F_spaced

IsBlank(line) == strip(line) = << >>

\* C2: when normalize_file returns after opening both files, total_lines
\* is the number L of input lines and valid_credentials +
\* filtered_low_confidence <= L; an empty or whitespace-only line adds one
\* to total_lines, writes nothing and changes no other counter.
C2_TotalsAndBlankLines ==
    [][ /\ pc' = "returned" =>
            /\ stats'.total_lines = Len(infile)
            /\ stats'.valid_credentials + stats'.filtered_low_confidence <= Len(infile)
        /\ (LineStep /\ IsBlank(NextLineOfFile)) =>
            /\ stats' = [stats EXCEPT !.total_lines = @ + 1]
            /\ outfile' = outfile
      ]_vars

C2_Witness ==
    /\ pc = "returned"
    /\ Len(infile) = 3
    /\ infile[1] = F_blank
    /\ infile[2] = F_white
    /\ stats.total_lines = 3
    /\ stats.valid_credentials = 1
    /\ stats.errors = 0

\* C3: the records of the output are in input order: the line_number of a
\* record is the 1-based position of its line in the input, successive
\* records have strictly increasing line numbers, and a line without a
\* record still uses up its number.
C3_RecordsInInputOrder ==
    \A i \in 1..Len(outfile) :
        /\ Get(outfile[i].data, "line_number") = outfile[i].pos
        /\ outfile[i].pos \in 1..cursor
        /\ i > 1 => Get(outfile[i - 1].data, "line_number")
                      < Get(outfile[i].data, "line_number")

C3_Witness ==
    /\ pc = "returned"
    /\ Len(infile) = 3
    /\ IsBlank(infile[1])
    /\ Len(outfile) = 2
    /\ Get(outfile[1].data, "line_number") = 2
    /\ Get(outfile[2].data, "line_number") = 3

\* C4: for each input line exactly one outcome applies: an entry with
\* confidence >= min_confidence is serialized to the output and only
\* valid_credentials (besides total_lines) is incremented; an entry below
\* min_confidence writes nothing and increments only
\* filtered_low_confidence; no entry writes nothing and changes no counter
\* other than total_lines.
C4_OneOutcomePerLine ==
    [][ LineStep =>
          LET r == normalize_line(NextLineOfFile, cursor + 1)
              counted == [stats EXCEPT !.total_lines = @ + 1]
          IN  /\ (r.kind = "entry" /\ r.entry.confidence >= min_confidence) =>
                    /\ stats' = [counted EXCEPT !.valid_credentials = @ + 1]
                    /\ outfile' = Append(outfile,
                                         [ data |-> to_dict(r.entry),
                                           pos |-> cursor + 1,
                                           written |-> "record" ])
              /\ (r.kind = "entry" /\ r.entry.confidence < min_confidence) =>
                    /\ stats' = [counted EXCEPT !.filtered_low_confidence = @ + 1]
                    /\ outfile' = outfile
              /\ r.kind = "None" =>
                    /\ stats' = counted
                    /\ outfile' = outfile
      ]_vars

\* C5: when the input file or the output file cannot be opened,
\* normalize_file raises before any line is processed: no line is counted
\* or classified, nothing is written, no statistics are returned.
C5_OpenFailureIsFatal ==
    ~(can_open.input /\ can_open.output) =>
        /\ pc \in {"start", "raised"}
        /\ cursor = 0
        /\ stats = ZeroStats
        /\ outfile = << >>
        /\ last.outcome = "start"

C5_Witness ==
    /\ pc = "raised"
    /\ can_open.input
    /\ ~can_open.output
    /\ Len(infile) >= 1

\* the roles filled in e, in the order email, username, password, hash
RolesOf(e) ==
       (IF e.email # None THEN << <<"e","m","a","i","l">> >> ELSE << >>)
    \o (IF e.username # None THEN << <<"u","s","e","r","n","a","m","e">> >> ELSE << >>)
    \o (IF e.password # None THEN << <<"p","a","s","s","w","o","r","d">> >> ELSE << >>)
    \o (IF e.password_hash # None THEN << <<"h","a","s","h">> >> ELSE << >>)

\* the cleaned line is labelled ValidCredential
LabelledValid(raw_line) ==
    LET line == _clean_line(raw_line)
    IN  line # << >> /\ classify(line, extract_features(line))[1] = VALID_CREDENTIAL

\* C6: for every line labelled ValidCredential normalize_line returns an
\* entry whose detected_format is the filled roles joined by the detected
\* delimiter, or by ':' when no delimiter was detected (fields separated
\* only by whitespace).
C6_DetectedFormat ==
    (line_ret.kind \notin {"off", "pending"} /\ LabelledValid(raw)) =>
        /\ line_ret.kind = "entry"
        /\ LET delimiter == detect_delimiter(_clean_line(raw))
           IN  line_ret.entry.detected_format
                 = join(IF delimiter = None THEN << ":" >> ELSE delimiter[1],
                        RolesOf(line_ret.entry))

OptionalKeys == {"email", "username", "password", "password_hash", "hash_type", "salt"}

\* C7: the serialized form of an entry never has the key source_line, has
\* none of email, username, password, password_hash, hash_type, salt when
\* that field is unset, has additional_fields only when it is a non-empty
\* mapping, and always has confidence, line_number and detected_format.
C7_SerializedForm ==
    entry_dict # << >> =>
        /\ "source_line" \notin Keys(entry_dict)
        /\ \A k \in OptionalKeys : entry[k] = None => k \notin Keys(entry_dict)
        /\ "additional_fields" \in Keys(entry_dict) =>
              /\ entry.additional_fields # None
              /\ entry.additional_fields[1] # {}
        /\ {"confidence", "line_number", "detected_format"} \subseteq Keys(entry_dict)

C7_Witness ==
    /\ entry_dict # << >>
    /\ entry.source_line # << >>
    /\ entry.email = None
    /\ entry.password # None
    /\ entry.additional_fields = Some({})
    /\ Keys(entry_dict) = {"password", "confidence", "line_number", "detected_format"}

\* C8: an entry returned by normalize_line has at least one of email,
\* username, password, password_hash set, and has hash_type set exactly
\* when password_hash is set.
C8_EntryHasRole ==
    line_ret.kind = "entry" =>
        /\ \/ line_ret.entry.email # None
           \/ line_ret.entry.username # None
           \/ line_ret.entry.password # None
           \/ line_ret.entry.password_hash # None
        /\ line_ret.entry.hash_type # None <=> line_ret.entry.password_hash # None

C8_Witness ==
    /\ line_ret.kind = "entry"
    /\ line_ret.entry.password_hash = Some(T_md5)
    /\ line_ret.entry.hash_type = Some(HashType_MD5)
    /\ line_ret.entry.email = None
    /\ line_ret.entry.username = None
    /\ line_ret.entry.password = None

\* C9: the confidence of classify is in [0, 1] on every branch, and so is
\* the confidence of every entry returned by normalize_line.
C9_ConfidenceInUnitInterval ==
    /\ cret[1] \in LineType => (0 <= cret[2] /\ cret[2] <= 10)
    /\ line_ret.kind = "entry" =>
          (0 <= line_ret.entry.confidence /\ line_ret.entry.confidence <= 10)

\* the capped branch: a raw score of 1.2
C9_Witness ==
    /\ cret = << VALID_CREDENTIAL, 10 >>
    /\ Score(cfeatures) = 12

SeparatorAlphabet == {" ", "-", "=", "*", "#"}
OnlySeparatorAlphabet(line) ==
    Len(line) >= 1 /\ AllIn(line, 1, Len(line), SeparatorAlphabet)

\* C10 as stated: every line made only of characters of {space, -, =, *, #},
\* of any length, is classified Separator with confidence 0.9.
C10_SeparatorAnyLength ==
    (cret[1] \in LineType /\ OnlySeparatorAlphabet(cline)) =>
        cret = << SEPARATOR, 9 >>

\* C10 amended: a line made only of characters of {space, -, =, *, #} is
\* classified Separator with confidence 0.9 when at least 3 characters
\* remain after trimming its whitespace, and Garbage with confidence 1.0
\* otherwise.
C10_SeparatorFromLengthThree ==
    (cret[1] \in LineType /\ OnlySeparatorAlphabet(cline)) =>
        cret = IF Len(strip(cline)) >= 3
                 THEN << SEPARATOR, 9 >>
                 ELSE << GARBAGE, 10 >>

C10_Witness ==
    /\ cret = << SEPARATOR, 9 >>
    /\ cline = << "-", " ", "*", "#" >>

\* C11: a line email:username:password or email:username:hash is
\* normalized to an entry with email the first token, username the second
\* token, and password (or password_hash) the third token.
C11_ThreeFieldFormats ==
    \A u \in { T_user, T_word } : \A p \in { T_pass, T_md5 } :
        (line_ret.kind \notin {"off", "pending"}
           /\ raw = join(<< ":" >>, << T_email, u, p >>)) =>
            /\ line_ret.kind = "entry"
            /\ line_ret.entry.email = Some(T_email)
            /\ line_ret.entry.username = Some(u)
            /\ IF p = T_md5
                 THEN line_ret.entry.password_hash = Some(p)
                 ELSE line_ret.entry.password = Some(p)

\* the decision list of classify, each rule with the conditions of the
\* rules in front of it negated; the score is the sum of the six weights
C12_Email(f) == IF f.has_email THEN 4 ELSE 0
C12_Alpha(f) ==
    IF ~f.has_email /\ 300000 < f.alpha_ratio /\ f.alpha_ratio < 900000 THEN 2 ELSE 0
C12_Hash(f) == IF f.has_md5 \/ f.has_sha1 \/ f.has_sha256 THEN 3 ELSE 0
C12_Delimiter(f) == IF f.delimiter # None /\ f.delimiter # Some(<< >>) THEN 2 ELSE 0
C12_Fields(f) == IF f.field_count \in 2..5 THEN 1 ELSE 0
C12_Entropy(f) == IF 2000000 < f.entropy /\ f.entropy < 5000000 THEN 1 ELSE 0
C12_Length(f) == IF f.length \in 20..200 THEN 1 ELSE 0
C12_Score(f) ==
    C12_Email(f) + C12_Alpha(f) + C12_Hash(f) + C12_Delimiter(f)
      + C12_Fields(f) + C12_Entropy(f) + C12_Length(f)

C12_Short(line) == Len(strip(line)) < 3
C12_Separator(line) ==
    line # << >> /\ \A k \in 1..Len(line) : isspace(line[k]) \/ line[k] \in {"-", "=", "*", "#"}

\* C12: classify is the ordered decision list: (1) trimmed length < 3 is
\* Garbage 1.0; (2) else a separator-only line is Separator 0.9; (3) else a
\* score >= 0.6 is ValidCredential with min(score, 1.0); (4) else a noise
\* match is Header 0.8; (5) else Garbage with 1.0 - score.  A line with
\* score >= 0.6 that matches a noise keyword is ValidCredential.
C12_DecisionList ==
    cret[1] \in LineType =>
        LET score == C12_Score(cfeatures)
            r1 == C12_Short(cline)
            r2 == ~r1 /\ C12_Separator(cline)
            r3 == ~r1 /\ ~r2 /\ score >= 6
            r4 == ~r1 /\ ~r2 /\ ~r3 /\ NOISE_PATTERNS(cline)
            r5 == ~r1 /\ ~r2 /\ ~r3 /\ ~r4
        IN  /\ r1 => cret = << GARBAGE, 10 >>
            /\ r2 => cret = << SEPARATOR, 9 >>
            /\ r3 => cret = << VALID_CREDENTIAL, IF score > 10 THEN 10 ELSE score >>
            /\ r4 => cret = << HEADER, 8 >>
            /\ r5 => cret = << GARBAGE, 10 - score >>

\* a line with a noise keyword and a score of at least 0.6
C12_Witness ==
    /\ cline = T_word
    /\ NOISE_PATTERNS(cline)
    /\ Score(cfeatures) = 6
    /\ cret = << VALID_CREDENTIAL, 6 >>

\* the entry and the flags of parse_credential_line after the first k fields
ParseStateAfter(fields, k) ==
    AssignFields([ entry |-> CredentialEntry,
                   email_found |-> FALSE,
                   hash_found |-> FALSE ], SubSeq(fields, 1, k))

\* the fields of the call in arg
ArgFields == extract_fields(arg.line, arg.delimiter)

\* C13: a token that did not take the email, hash or username role
\* becomes the password whenever password is still unset and the token
\* itself is not a hash, also when an earlier token was already assigned
\* as password_hash.
C13_PasswordAfterHash ==
    ret.fn = "parse_credential_line" =>
        \A k \in 1..Len(ArgFields) :
            LET before == ParseStateAfter(ArgFields, k - 1).entry
                after == ParseStateAfter(ArgFields, k).entry
            IN  (/\ after.email = before.email
                 /\ after.password_hash = before.password_hash
                 /\ after.username = before.username
                 /\ before.password = None
                 /\ identify_hash_type(ArgFields[k]) = HashType_UNKNOWN)
                  => /\ after.password = Some(ArgFields[k])
                     /\ ret.value.password = Some(ArgFields[k])

\* the least index of a field with property P, 0 when there is none
LeastIndex(S) == IF S = {} THEN 0 ELSE CHOOSE i \in S : \A j \in S : i <= j
FieldAt(fields, i) == IF i = 0 THEN None ELSE Some(fields[i])

\* the field of each role, stated by position: the email is the leftmost
\* field matching EMAIL; the hash is the leftmost other field that is a
\* hash; the username is the leftmost field left over that matches USERNAME
\* while email is unset; the password is the leftmost field left over
EmailIndex(fields) ==
    LeastIndex({ i \in 1..Len(fields) : EMAIL_match(fields[i]) })
HashIndex(fields) ==
    LeastIndex({ i \in 1..Len(fields) :
                   /\ i # EmailIndex(fields)
                   /\ identify_hash_type(fields[i]) # HashType_UNKNOWN })
UsernameIndex(fields) ==
    LeastIndex({ i \in 1..Len(fields) :
                   /\ i \notin { EmailIndex(fields), HashIndex(fields) }
                   /\ USERNAME_match(fields[i])
                   /\ (EmailIndex(fields) = 0 \/ i < EmailIndex(fields)) })
PasswordIndex(fields) ==
    LeastIndex({ i \in 1..Len(fields) :
                   /\ i \notin { EmailIndex(fields), HashIndex(fields),
                                 UsernameIndex(fields) } })

RoleKeys == {"email", "username", "password", "password_hash"}

\* C17: parse_credential_line scans the fields left to right and each of
\* email, username, password, password_hash is write-once: a role that is
\* set is not overwritten by a later field, and each role holds the
\* leftmost field eligible for it under the test order email, hash,
\* username, password.  For two fields [u, p], u matching the username
\* pattern and neither an email or a hash, username = u and password = p.
C17_WriteOnceLeftmost ==
    ret.fn = "parse_credential_line" =>
        LET fields == ArgFields
        IN  /\ \A k \in 1..Len(fields) : \A role \in RoleKeys :
                  ParseStateAfter(fields, k - 1).entry[role] # None =>
                      ParseStateAfter(fields, k).entry[role]
                        = ParseStateAfter(fields, k - 1).entry[role]
            /\ ret.value.email = FieldAt(fields, EmailIndex(fields))
            /\ ret.value.password_hash = FieldAt(fields, HashIndex(fields))
            /\ ret.value.username = FieldAt(fields, UsernameIndex(fields))
            /\ ret.value.password = FieldAt(fields, PasswordIndex(fields))
            /\ (/\ Len(fields) = 2
                /\ USERNAME_match(fields[1])
                /\ \A i \in 1..2 : /\ ~EMAIL_match(fields[i])
                                   /\ identify_hash_type(fields[i]) = HashType_UNKNOWN)
                 => /\ ret.value.username = Some(fields[1])
                    /\ ret.value.password = Some(fields[2])

\* the hash surface forms: exactly n hex characters, or a bcrypt string
\* ($2a$/$2y$/$2b$, two digits, $, 53 characters) with nothing after it
IsHexToken(t, n) == Len(t) = n /\ AllIn(t, 1, n, HexChars)
IsBcryptToken(t) == Len(t) = 60 /\ BCRYPT_match(t)
SurfaceKind(t) ==
    IF IsBcryptToken(t) THEN HashType_BCRYPT
    ELSE IF IsHexToken(t, 128) THEN HashType_SHA512
    ELSE IF IsHexToken(t, 64) THEN HashType_SHA256
    ELSE IF IsHexToken(t, 40) THEN HashType_SHA1
    ELSE IF IsHexToken(t, 32) THEN HashType_MD5
    ELSE HashType_UNKNOWN

\* C14: identify_hash_type returns a kind other than Unknown only when the
\* whole trimmed token is exactly one hash surface form (32, 40, 64 or 128
\* hex characters, or a complete bcrypt string with nothing after it); the
\* kinds are tested in the order BCrypt, SHA512, SHA256, SHA1, MD5, so a
\* 32-hex token is MD5; a hash followed by further characters is Unknown.
C14_WholeTokenOnly ==
    ret.fn = "identify_hash_type" =>
        /\ ret.value = SurfaceKind(strip(arg))
        /\ ret.value # HashType_NTLM

Occurs(line, w) == \E p \in 1..Len(line) : OccursAt(line, w, p)

\* C15: detect_delimiter returns None if and only if none of the candidates
\* ':', '|', ';', tab, ',', ' - ', '--', '==' occurs in the line; otherwise
\* it returns the candidate with the highest occurrence count, and among
\* candidates sharing the highest count the one listed first.
C15_MostFrequentFirstListed ==
    ret.fn = "detect_delimiter" =>
        LET candidates == 1..Len(DELIMITERS)
            occurring == { k \in candidates : Occurs(arg, DELIMITERS[k]) }
        IN  /\ (ret.value = None) <=> (occurring = {})
            /\ occurring # {} =>
                 \E k \in occurring :
                     /\ ret.value = Some(DELIMITERS[k])
                     /\ \A j \in candidates :
                          /\ count(arg, DELIMITERS[j]) <= count(arg, DELIMITERS[k])
                          /\ count(arg, DELIMITERS[j]) = count(arg, DELIMITERS[k]) => k <= j

\* '|' stands in front of ':' in the line and both occur once: ':', listed
\* first, is returned
C15_Witness ==
    /\ ret.fn = "detect_delimiter"
    /\ arg = << "|", "a", ":" >>
    /\ ret.value = Some(<< ":" >>)

\* C16: the result of _clean_line has no leading or trailing whitespace,
\* no NUL, and no run of two or more whitespace characters (every
\* whitespace character of it is a single blank), also when NUL stands next
\* to whitespace or at the ends of the line; cleaning a cleaned line
\* returns it unchanged.
C16_CleanLineNormalForm ==
    ret.fn = "_clean_line" =>
        LET cleaned == ret.value
        IN  /\ cleaned # << >> =>
                 /\ ~isspace(cleaned[1])
                 /\ ~isspace(cleaned[Len(cleaned)])
            /\ \A i \in 1..Len(cleaned) :
                 /\ cleaned[i] # NUL
                 /\ isspace(cleaned[i]) => cleaned[i] = " "
            /\ \A i \in 1..(Len(cleaned) - 1) :
                 ~(isspace(cleaned[i]) /\ isspace(cleaned[i + 1]))
            /\ _clean_line(cleaned) = cleaned

CompleteRecords == { i \in 1..Len(outfile) : outfile[i].written = "record" }

\* C18: at every line boundary of normalize_file and at its return, the
\* number of complete records in the output equals valid_credentials, and
\* valid_credentials + filtered_low_confidence + errors <= total_lines,
\* also when the failure of a line is raised while its record is
\* serialized or written.
C18_CountersMatchOutput ==
    pc \in {"loop", "returned"} =>
        /\ Cardinality(CompleteRecords) = stats.valid_credentials
        /\ stats.valid_credentials + stats.filtered_low_confidence + stats.errors
             <= stats.total_lines

\* C19: every entry returned by normalize_line has confidence >= 0.6 (only
\* ValidCredential lines yield entries and that label requires score >=
\* 0.6); so every record written carries confidence >= 0.6, and for a
\* min_confidence of at most 0.6 filtered_low_confidence is 0 throughout
\* and at the end of every run of normalize_file.
C19_EntriesAtLeastSixTenths ==
    /\ line_ret.kind = "entry" => line_ret.entry.confidence >= 6
    /\ \A i \in 1..Len(outfile) : Get(outfile[i].data, "confidence") >= 6
    /\ min_confidence <= 6 => stats.filtered_low_confidence = 0

\* a run with threshold 0.6 returned after a line of confidence exactly 0.6
\* was written
C19_Witness ==
    /\ pc = "returned"
    /\ min_confidence = 6
    /\ stats.valid_credentials >= 1
    /\ stats.filtered_low_confidence = 0
    /\ \E i \in 1..Len(outfile) : Get(outfile[i].data, "confidence") = 6

Unknown == << "u","n","k","n","o","w","n" >>

\* C20: the guard of normalize_line is unreachable: for every cleaned line
\* that classify labels ValidCredential, extract_fields yields at least one
\* field, every field non-empty, the first field takes a role, so
\* parse_credential_line fills at least one of email, username, password,
\* password_hash; normalize_line does not return None for such a line and
\* _detect_format does not compute 'unknown'.
C20_GuardUnreachable ==
    (line_ret.kind \notin {"off", "pending"} /\ LabelledValid(raw)) =>
        LET line == _clean_line(raw)
            features == extract_features(line)
            fields == extract_fields(line, features.delimiter)
            parsed == parse_credential_line(line, features.delimiter)
            fmt == _detect_format(parsed, features)
        IN  /\ fields # << >>
            /\ \A i \in 1..Len(fields) : fields[i] # << >>
            /\ RolesOf(ParseStateAfter(fields, 1).entry) # << >>
            /\ RolesOf(parsed) # << >>
            /\ line_ret.kind # "None"
            /\ fmt.raised \/ fmt.value # Unknown

\* a line labelled ValidCredential that starts with the delimiter and
\* whose only role is the password
C20_Witness ==
    /\ raw = << ":" >> \o T_pass
    /\ LabelledValid(raw)
    /\ line_ret.kind = "entry"
    /\ RolesOf(line_ret.entry) = << << "p","a","s","s","w","o","r","d" >> >>
    /\ line_ret.entry.password = Some(T_pass)

====
